---- MODULE Spec2Model ----
(***************************************************************************)
(* GitGrade (final_app.py): the repository-context pipeline.                *)
(*   parse_github_url, fetch_file_content, get_repo_structure,              *)
(*   analyze_with_gemini and the "Analyze Repository" button handler.       *)
(*                                                                          *)
(* Python strings are sequences of Unicode code points, bytes are sequences *)
(* of 0..255.  None is a distinguished value that is no string.             *)
(***************************************************************************)
EXTENDS Integers, Sequences, FiniteSets, TLC

VARIABLES
    pc,                 \* position of the single thread of control
    repo_url,           \* st.text_input "Paste GitHub Repository URL"
    gemini_api_key,     \* sidebar input 1
    selected_model,     \* sidebar selectbox (None when nothing is selectable)
    github_token,       \* token argument / sidebar input 3
    owner, repo,        \* result of parse_github_url / arguments of the run
    requests,           \* every GitHub request issued so far, with its answer
    repo_data,          \* metadata body (response.json() of the first request)
    default_branch,
    files,              \* the list comprehension of line 84
    file_structure,
    readme_content,
    dependency_content,
    dep_ix,             \* index of the for loop of line 96
    ret,                \* what get_repo_structure returned
    gemini,             \* analyze_with_gemini: calls made, outcome
    shown,              \* what the page shows for this click
    file_path, response, fetched,  \* one fetch_file_content call on its own
    github              \* what the GitHub API may answer in this run

vars == <<pc, repo_url, gemini_api_key, selected_model, github_token, owner,
          repo, requests, repo_data, default_branch, files, file_structure,
          readme_content, dependency_content, dep_ix, ret, gemini, shown,
          file_path, response, fetched, github>>

None == <<-1>>

\* Python truthiness of a string-or-None value ("if token:", "not owner").
Truthy(x) == x # None /\ x # <<>>

(***************************************************************************)
(* String literals of the source.                                          *)
(***************************************************************************)
\* 'not found'
S_not_found == <<110, 111, 116, 32, 102, 111, 117, 110, 100>>

\* 'inaccessible'
S_inaccessible == <<105, 110, 97, 99, 99, 101, 115, 115, 105, 98, 108, 101>>

\* 'File '
S_File == <<70, 105, 108, 101, 32>>

\* ' not found or inaccessible.'
S_not_found_or_inaccessible == <<32, 110, 111, 116, 32, 102, 111, 117, 110,
    100, 32, 111, 114, 32, 105, 110, 97, 99, 99, 101, 115, 115, 105, 98, 108,
    101, 46>>

\* 'Error decoding '
S_Error_decoding == <<69, 114, 114, 111, 114, 32, 100, 101, 99, 111, 100,
    105, 110, 103, 32>>

\* ' content.'
S_content == <<32, 99, 111, 110, 116, 101, 110, 116, 46>>

\* 'No README.md found.'
S_No_README == <<78, 111, 32, 82, 69, 65, 68, 77, 69, 46, 109, 100, 32, 102,
    111, 117, 110, 100, 46>>

\* 'No primary dependency file (e.g., requirements.txt, package.json) or lock file found.'
S_No_dependency == <<78, 111, 32, 112, 114, 105, 109, 97, 114, 121, 32, 100,
    101, 112, 101, 110, 100, 101, 110, 99, 121, 32, 102, 105, 108, 101, 32,
    40, 101, 46, 103, 46, 44, 32, 114, 101, 113, 117, 105, 114, 101, 109,
    101, 110, 116, 115, 46, 116, 120, 116, 44, 32, 112, 97, 99, 107, 97, 103,
    101, 46, 106, 115, 111, 110, 41, 32, 111, 114, 32, 108, 111, 99, 107, 32,
    102, 105, 108, 101, 32, 102, 111, 117, 110, 100, 46>>

\* 'Error: Could not fetch repo. Status Code: '
S_Could_not_fetch == <<69, 114, 114, 111, 114, 58, 32, 67, 111, 117, 108,
    100, 32, 110, 111, 116, 32, 102, 101, 116, 99, 104, 32, 114, 101, 112,
    111, 46, 32, 83, 116, 97, 116, 117, 115, 32, 67, 111, 100, 101, 58, 32>>

\* '. Message: '
S_Message == <<46, 32, 77, 101, 115, 115, 97, 103, 101, 58, 32>>

\* 'Unknown error'
S_Unknown_error == <<85, 110, 107, 110, 111, 119, 110, 32, 101, 114, 114,
    111, 114>>

\* 'main'
S_main == <<109, 97, 105, 110>>

\* 'Error configuring Gemini API or loading model: '
S_Error_configuring == <<69, 114, 114, 111, 114, 32, 99, 111, 110, 102, 105,
    103, 117, 114, 105, 110, 103, 32, 71, 101, 109, 105, 110, 105, 32, 65,
    80, 73, 32, 111, 114, 32, 108, 111, 97, 100, 105, 110, 103, 32, 109, 111,
    100, 101, 108, 58, 32>>

\* 'Error generating content: '
S_Error_generating == <<69, 114, 114, 111, 114, 32, 103, 101, 110, 101, 114,
    97, 116, 105, 110, 103, 32, 99, 111, 110, 116, 101, 110, 116, 58, 32>>

\* 'README.md'
N_README == <<82, 69, 65, 68, 77, 69, 46, 109, 100>>

\* 'requirements.txt'
N_requirements == <<114, 101, 113, 117, 105, 114, 101, 109, 101, 110, 116,
    115, 46, 116, 120, 116>>

\* 'package.json'
N_package_json == <<112, 97, 99, 107, 97, 103, 101, 46, 106, 115, 111, 110>>

\* 'Pipfile'
N_Pipfile == <<80, 105, 112, 102, 105, 108, 101>>

\* 'pyproject.toml'
N_pyproject == <<112, 121, 112, 114, 111, 106, 101, 99, 116, 46, 116, 111,
    109, 108>>

\* 'package-lock.json'
N_package_lock == <<112, 97, 99, 107, 97, 103, 101, 45, 108, 111, 99, 107,
    46, 106, 115, 111, 110>>

\* 'Pipfile.lock'
N_Pipfile_lock == <<80, 105, 112, 102, 105, 108, 101, 46, 108, 111, 99, 107>>

\* 'yarn.lock'
N_yarn_lock == <<121, 97, 114, 110, 46, 108, 111, 99, 107>>

\* 'status'
N_status == <<115, 116, 97, 116, 117, 115>>

\* '/'
Slash == <<47>>

\* '\n'
NL == <<10>>

\* 'token '
S_token == <<116, 111, 107, 101, 110, 32>>

\* file_path as the text interpolated into the f-strings of lines 56-57
Chars(name) ==
    CASE name = "README.md" -> N_README
      [] name = "requirements.txt" -> N_requirements
      [] name = "package.json" -> N_package_json
      [] name = "Pipfile" -> N_Pipfile
      [] name = "pyproject.toml" -> N_pyproject
      [] name = "package-lock.json" -> N_package_lock
      [] name = "Pipfile.lock" -> N_Pipfile_lock
      [] name = "yarn.lock" -> N_yarn_lock
      [] name = "status" -> N_status

(***************************************************************************)
(* str operations used by the source.                                       *)
(***************************************************************************)
\* sub in s
Contains(s, sub) ==
    \E i \in 1..(Len(s) - Len(sub) + 1) : SubSeq(s, i, i + Len(sub) - 1) = sub

\* s.rstrip(c) for a one-character c
RECURSIVE RStrip(_, _)
RStrip(s, c) ==
    IF s # <<>> /\ s[Len(s)] = c THEN RStrip(SubSeq(s, 1, Len(s) - 1), c) ELSE s

\* s.split(c) for a one-character c
RECURSIVE Split(_, _)
Split(s, c) ==
    IF \A i \in 1..Len(s) : s[i] # c
    THEN <<s>>
    ELSE LET i == CHOOSE k \in 1..Len(s) :
                      s[k] = c /\ \A j \in 1..(k - 1) : s[j] # c
         IN  <<SubSeq(s, 1, i - 1)>> \o Split(SubSeq(s, i + 1, Len(s)), c)

\* sep.join(list), computed by halves
RECURSIVE Join(_, _)
Join(list, sep) ==
    IF list = <<>> THEN <<>>
    ELSE IF Len(list) = 1 THEN list[1]
    ELSE LET h == Len(list) \div 2
         IN  Join(SubSeq(list, 1, h), sep) \o sep
             \o Join(SubSeq(list, h + 1, Len(list)), sep)

\* str(n) for n >= 0, as in f"{response.status_code}"
RECURSIVE IntToStr(_)
IntToStr(n) ==
    IF n < 10 THEN <<48 + n>> ELSE IntToStr(n \div 10) \o <<48 + (n % 10)>>

(***************************************************************************)
(* parse_github_url                                                         *)
(***************************************************************************)
MinParts == 2

parse_github_url(url) ==
    IF url = None
    THEN <<None, None>>                  \* None.rstrip raises: bare except
    ELSE LET parts == Split(RStrip(url, Slash[1]), Slash[1])
         IN  IF Len(parts) < MinParts
             THEN <<None, None>>
             ELSE <<parts[Len(parts) - 1], parts[Len(parts)]>>

(***************************************************************************)
(* base64.b64decode(s) for a str s (line 54): the str is encoded as ASCII   *)
(* (a non-ASCII character raises ValueError, None raises TypeError), then   *)
(* binascii.a2b_base64 runs in its default non-strict mode: characters      *)
(* outside the alphabet are skipped, '=' ends the data once a quad is at    *)
(* least half full, and a quad left open at the end raises binascii.Error.  *)
(* A result is [ok |-> TRUE, val |-> ...] or [ok |-> FALSE] (it raised).    *)
(***************************************************************************)
Pad == 61

B64Value(c) ==
    IF c >= 65 /\ c <= 90 THEN c - 65            \* A-Z
    ELSE IF c >= 97 /\ c <= 122 THEN c - 71      \* a-z
    ELSE IF c >= 48 /\ c <= 57 THEN c + 4        \* 0-9
    ELSE IF c = 43 THEN 62                       \* +
    ELSE IF c = 47 THEN 63                       \* /
    ELSE 64                                      \* not in the alphabet

RECURSIVE A2B(_, _, _, _, _, _)
A2B(data, i, quad_pos, leftchar, pads, out) ==
    IF i > Len(data)
    THEN IF quad_pos # 0 THEN [ok |-> FALSE] ELSE [ok |-> TRUE, val |-> out]
    ELSE IF data[i] = Pad
    THEN IF quad_pos >= 2 /\ quad_pos + pads + 1 >= 4
         THEN [ok |-> TRUE, val |-> out]
         ELSE A2B(data, i + 1, quad_pos, leftchar,
                  IF quad_pos >= 2 THEN pads + 1 ELSE pads, out)
    ELSE LET v == B64Value(data[i])
         IN  IF v >= 64 THEN A2B(data, i + 1, quad_pos, leftchar, pads, out)
             ELSE CASE quad_pos = 0 -> A2B(data, i + 1, 1, v, 0, out)
                    [] quad_pos = 1 ->
                         A2B(data, i + 1, 2, v % 16, 0,
                             Append(out, leftchar * 4 + v \div 16))
                    [] quad_pos = 2 ->
                         A2B(data, i + 1, 3, v % 4, 0,
                             Append(out, leftchar * 16 + v \div 4))
                    [] quad_pos = 3 ->
                         A2B(data, i + 1, 0, 0, 0,
                             Append(out, leftchar * 64 + v))

b64decode(s) ==
    IF s = None \/ \E i \in 1..Len(s) : s[i] > 127
    THEN [ok |-> FALSE]
    ELSE A2B(s, 1, 0, 0, 0, <<>>)

(***************************************************************************)
(* bytes.decode('utf-8') (line 54), strict: ill-formed input raises.        *)
(***************************************************************************)
IsCont(b) == b >= 128 /\ b <= 191

RECURSIVE Utf8Decode(_, _, _)
Utf8Decode(b, i, out) ==
    IF i > Len(b) THEN [ok |-> TRUE, val |-> out]
    ELSE LET c == b[i]
             has(k) == i + k <= Len(b) /\ \A j \in 1..k : IsCont(b[i + j])
         IN  IF c < 128 THEN Utf8Decode(b, i + 1, Append(out, c))
             ELSE IF c >= 194 /\ c <= 223 /\ has(1)
             THEN Utf8Decode(b, i + 2,
                      Append(out, (c - 192) * 64 + (b[i + 1] - 128)))
             ELSE IF c >= 224 /\ c <= 239 /\ has(2)
                     /\ (c = 224 => b[i + 1] >= 160)
                     /\ (c = 237 => b[i + 1] <= 159)
             THEN Utf8Decode(b, i + 3,
                      Append(out, (c - 224) * 4096 + (b[i + 1] - 128) * 64
                                  + (b[i + 2] - 128)))
             ELSE IF c >= 240 /\ c <= 244 /\ has(3)
                     /\ (c = 240 => b[i + 1] >= 144)
                     /\ (c = 244 => b[i + 1] <= 143)
             THEN Utf8Decode(b, i + 4,
                      Append(out, (c - 240) * 262144 + (b[i + 1] - 128) * 4096
                                  + (b[i + 2] - 128) * 64 + (b[i + 3] - 128)))
             ELSE [ok |-> FALSE]

\* base64.b64decode(content_b64).decode('utf-8')
DecodeContent(content_b64) ==
    LET raw == b64decode(content_b64)
    IN  IF raw.ok THEN Utf8Decode(raw.val, 1, <<>>) ELSE [ok |-> FALSE]

(***************************************************************************)
(* fetch_file_content, after requests.get has answered with `resp`:         *)
(*   resp.status  the HTTP status code                                      *)
(*   resp.body    the JSON object of the answer, a function from keys;      *)
(*                its "content" is a str or None (JSON null)                *)
(* The outcome is [raised |-> FALSE, val |-> str] or [raised |-> TRUE].     *)
(***************************************************************************)
HTTP_OK == 200

Return(v) == [raised |-> FALSE, val |-> v]

Raise == [raised |-> TRUE]

\* response.json().get('content', '')
GetContent(body) == IF "content" \in DOMAIN body THEN body["content"] ELSE <<>>

NotFoundMessage(path) == S_File \o Chars(path) \o S_not_found_or_inaccessible

DecodeErrorMessage(path) == S_Error_decoding \o Chars(path) \o S_content

\* lines 53-56 without the except clause
TryDecode_NoExcept(path, content_b64) ==
    LET d == DecodeContent(content_b64)
    IN  IF d.ok THEN Return(d.val) ELSE Raise

\* lines 53-56: try: return ...decode...  except: return "Error decoding ..."
TryDecode(path, content_b64) ==
    LET d == DecodeContent(content_b64)
    IN  IF d.ok THEN Return(d.val) ELSE Return(DecodeErrorMessage(path))

fetch_file_content(path, resp) ==
    IF resp.status = HTTP_OK
    THEN TryDecode(path, GetContent(resp.body))
    ELSE Return(NotFoundMessage(path))

\* lines 44-46 when the caller does not pass its token on
FileHeaders_NoToken(token) == <<>>

\* headers of fetch_file_content's request: lines 44-46
FileHeaders(token) ==
    IF Truthy(token) THEN ("Authorization" :> (S_token \o token)) ELSE <<>>

(***************************************************************************)
(* The GitHub REST API as the program sees it: the answers requests.get     *)
(* can bring back.  Texts used as inputs:                                   *)
(***************************************************************************)
\* 'a'
T_a == <<97>>

\* 'octocat'
T_octocat == <<111, 99, 116, 111, 99, 97, 116>>

\* 'Hello-World'
T_Hello_World == <<72, 101, 108, 108, 111, 45, 87, 111, 114, 108, 100>>

\* 'dev'
T_dev == <<100, 101, 118>>

\* 'Not Found'
T_Not_Found == <<78, 111, 116, 32, 70, 111, 117, 110, 100>>

\* 'ghp_x'
T_ghp == <<103, 104, 112, 95, 120>>

\* 'k'
T_key == <<107>>

\* 'models/gemini-2.5-flash'
T_model == <<109, 111, 100, 101, 108, 115, 47, 103, 101, 109, 105, 110, 105,
    45, 50, 46, 53, 45, 102, 108, 97, 115, 104>>

\* '### SCORE\n80'
T_score == <<35, 35, 35, 32, 83, 67, 79, 82, 69, 10, 56, 48>>

\* 'quota'
T_quota == <<113, 117, 111, 116, 97>>

\* 'https://github.com'
U_scheme_host == <<104, 116, 116, 112, 115, 58, 47, 47, 103, 105, 116, 104,
    117, 98, 46, 99, 111, 109>>

\* 'github.com'
U_host == <<103, 105, 116, 104, 117, 98, 46, 99, 111, 109>>

\* '--- '
S_dashes_open == <<45, 45, 45, 32>>

\* ' ---\n'
S_dashes_close == <<32, 45, 45, 45, 10>>

\* '\n\n'
S_two_newlines == <<10, 10>>

\* str.encode('utf-8') on the provider's side: a file's text as bytes
RECURSIVE Utf8Encode(_)
Utf8Encode(text) ==
    IF text = <<>> THEN <<>>
    ELSE LET c == Head(text)
             b == IF c < 128 THEN <<c>>
                  ELSE IF c < 2048 THEN <<192 + c \div 64, 128 + (c % 64)>>
                  ELSE IF c < 65536
                       THEN <<224 + c \div 4096, 128 + ((c \div 64) % 64),
                              128 + (c % 64)>>
                       ELSE <<240 + c \div 262144, 128 + ((c \div 4096) % 64),
                              128 + ((c \div 64) % 64), 128 + (c % 64)>>
         IN  b \o Utf8Encode(Tail(text))

B64Char(v) ==
    IF v < 26 THEN v + 65
    ELSE IF v < 52 THEN v + 71
    ELSE IF v < 62 THEN v - 4
    ELSE IF v = 62 THEN 43 ELSE 47

\* the provider's base64 of a file's bytes (the 'content' field of line 52)
RECURSIVE B64Encode(_)
B64Encode(b) ==
    IF b = <<>> THEN <<>>
    ELSE IF Len(b) = 1
    THEN <<B64Char(b[1] \div 4), B64Char((b[1] % 4) * 16), Pad, Pad>>
    ELSE IF Len(b) = 2
    THEN <<B64Char(b[1] \div 4), B64Char((b[1] % 4) * 16 + b[2] \div 16),
           B64Char((b[2] % 16) * 4), Pad>>
    ELSE <<B64Char(b[1] \div 4), B64Char((b[1] % 4) * 16 + b[2] \div 16),
           B64Char((b[2] % 16) * 4 + (b[3] \div 64)), B64Char(b[3] % 64)>>
         \o B64Encode(SubSeq(b, 4, Len(b)))

\* a contents answer for an existing file: its text in base64, newline-ended
FileAnswer(text) ==
    [status |-> HTTP_OK,
     body |-> ("content" :> (B64Encode(Utf8Encode(text)) \o NL))]

\* a contents answer whose payload is given as is
RawAnswer(status, payload) == [status |-> status, body |-> ("content" :> payload)]

\* an error answer of the API: {"message": ...}
ErrorAnswer(status, message) == [status |-> status, body |-> ("message" :> message)]

\* an answer whose JSON object carries neither 'content' nor 'message'
BareAnswer(status) == [status |-> status, body |-> <<>>]

\* '/w==' : one byte 0xFF, which is not UTF-8
P_invalid_utf8 == <<47, 119, 61, 61>>

FilePresent == FileAnswer(T_a)

FileMissing == ErrorAnswer(404, T_Not_Found)

\* an existing file whose own text holds the words "not found"
FileSayingNotFound == FileAnswer(T_a \o S_not_found)

FileUndecodable == RawAnswer(HTTP_OK, P_invalid_utf8)

\* a recursive-tree answer with n entries; entry i has path "f<i>" or,
\* in the reverse listing, "g<n-i>"
TreeEntry(i, n, rev) ==
    [path |-> IF rev THEN <<103>> \o IntToStr(n - i) ELSE <<102>> \o IntToStr(i)]

TreeAnswer(n, rev) ==
    [status |-> HTTP_OK, body |-> ("tree" :> [i \in 1..n |-> TreeEntry(i, n, rev)])]

\* metadata answers
MetaWithBranch ==
    [status |-> HTTP_OK,
     body |-> ("default_branch" :> T_dev @@ "stargazers_count" :> 80)]

MetaWithoutBranch == [status |-> HTTP_OK, body |-> ("stargazers_count" :> 3)]

MetaAnswers ==
    {MetaWithBranch, MetaWithoutBranch, ErrorAnswer(404, T_Not_Found),
     BareAnswer(500)}

(***************************************************************************)
(* get_repo_structure(owner, repo, token), one action per request.          *)
(***************************************************************************)
\* line 94 with the two lock files of the middle exchanged
DepFiles_Reordered ==
    <<"requirements.txt", "package.json", "Pipfile", "pyproject.toml",
      "Pipfile.lock", "package-lock.json", "yarn.lock">>

DepFiles ==
    <<"requirements.txt", "package.json", "Pipfile", "pyproject.toml",
      "package-lock.json", "Pipfile.lock", "yarn.lock">>

MaxFiles == 100

\* Python None where a snapshot dict is expected
NoSnapshot == [none |-> TRUE]

NotReturned == [repo_data |-> NoSnapshot, error |-> None]

Min(a, b) == IF a < b THEN a ELSE b

\* headers of the metadata and tree requests: lines 62-64
RepoHeaders(token) ==
    IF Truthy(token) THEN ("Authorization" :> (S_token \o token)) ELSE <<>>

\* a request as issued, with the answer it got
Req(endpoint, path, ref, headers, resp) ==
    [endpoint |-> endpoint, owner |-> owner, repo |-> repo, path |-> path,
     ref |-> ref, headers |-> headers, resp |-> resp]

\* line 70 aborting on server errors only
MetadataFailed_ServerOnly(resp) == resp.status >= 500

\* line 70
MetadataFailed(resp) == resp.status # HTTP_OK

\* lines 71-72
MetadataError(resp) ==
    S_Could_not_fetch \o IntToStr(resp.status) \o S_Message
    \o (IF "message" \in DOMAIN resp.body THEN resp.body["message"]
        ELSE S_Unknown_error)

\* line 75: repo_data.get("default_branch", "main")
DefaultBranch(body) ==
    IF "default_branch" \in DOMAIN body THEN body["default_branch"] ELSE S_main

\* line 84 with the slice one entry too long
TreePaths_OffByOne(body) ==
    LET tree == IF "tree" \in DOMAIN body THEN body["tree"] ELSE <<>>
    IN  [i \in 1..Min(Len(tree), MaxFiles + 1) |-> tree[i].path]

\* line 84: [item['path'] for item in tree_data.get('tree', [])[:100]]
TreePaths(body) ==
    LET tree == IF "tree" \in DOMAIN body THEN body["tree"] ELSE <<>>
    IN  [i \in 1..Min(Len(tree), MaxFiles) |-> tree[i].path]

\* lines 89 and 98: the caller's test for an absent file
IsAbsent(content) ==
    Contains(content, S_not_found) \/ Contains(content, S_inaccessible)

\* lines 101-102
WithPlaceholder(deps) ==
    IF DOMAIN deps = {} THEN ("status" :> S_No_dependency) ELSE deps

RunVars ==
    <<requests, repo_data, default_branch, files, file_structure,
      readme_content, dependency_content, dep_ix, ret>>

Inputs == <<repo_url, gemini_api_key, selected_model, github_token, github>>

Harness == <<file_path, response, fetched>>

Shell == <<owner, repo, gemini, shown>>

\* lines 66-75
RequestMetadata ==
    /\ pc = "meta"
    /\ \E resp \in github.meta :
         /\ requests' = Append(requests,
                Req("repo", "", <<>>, RepoHeaders(github_token), resp))
         /\ IF MetadataFailed(resp)
            THEN /\ ret' = [repo_data |-> NoSnapshot,
                            error |-> MetadataError(resp)]
                 /\ pc' = "returned"
                 /\ UNCHANGED <<repo_data, default_branch>>
            ELSE /\ repo_data' = resp.body
                 /\ default_branch' = DefaultBranch(resp.body)
                 /\ pc' = "tree"
                 /\ UNCHANGED ret
    /\ UNCHANGED <<files, file_structure, readme_content, dependency_content,
                   dep_ix, Shell>>
    /\ UNCHANGED <<Inputs, Harness>>

\* lines 77-85
RequestTree ==
    /\ pc = "tree"
    /\ \E resp \in github.trees :
         /\ requests' = Append(requests,
                Req("tree", "", default_branch, RepoHeaders(github_token), resp))
         /\ IF resp.status = HTTP_OK
            THEN /\ files' = TreePaths(resp.body)
                 /\ file_structure' = Join(files', NL)
            ELSE /\ file_structure' = <<>>
                 /\ UNCHANGED files
    /\ pc' = "readme"
    /\ UNCHANGED <<repo_data, default_branch, readme_content,
                   dependency_content, dep_ix, ret, Shell>>
    /\ UNCHANGED <<Inputs, Harness>>

\* lines 87-90
FetchReadme ==
    /\ pc = "readme"
    /\ \E resp \in github.files :
         LET got == fetch_file_content("README.md", resp)
         IN  /\ requests' = Append(requests,
                    Req("contents", "README.md", <<>>,
                        FileHeaders(github_token), resp))
             /\ IF got.raised
                THEN /\ pc' = "crashed"
                     /\ UNCHANGED <<readme_content, dep_ix>>
                ELSE /\ readme_content' =
                          IF IsAbsent(got.val) THEN S_No_README ELSE got.val
                     /\ dep_ix' = 1
                     /\ pc' = "deps"
    /\ dependency_content' = <<>>
    /\ UNCHANGED <<repo_data, default_branch, files, file_structure, ret,
                   Shell>>
    /\ UNCHANGED <<Inputs, Harness>>

\* lines 96-99: one iteration of the loop over dep_files
FetchDependency ==
    /\ pc = "deps"
    /\ dep_ix <= Len(DepFiles)
    /\ \E resp \in github.files :
         LET file_name == DepFiles[dep_ix]
             got == fetch_file_content(file_name, resp)
         IN  /\ requests' = Append(requests,
                    Req("contents", file_name, <<>>,
                        FileHeaders(github_token), resp))
             /\ IF got.raised
                THEN /\ pc' = "crashed"
                     /\ UNCHANGED <<dependency_content, dep_ix>>
                ELSE /\ dependency_content' =
                          IF ~IsAbsent(got.val)
                          THEN dependency_content @@ (file_name :> got.val)
                          ELSE dependency_content
                     /\ dep_ix' = dep_ix + 1
                     /\ pc' = "deps"
    /\ UNCHANGED <<repo_data, default_branch, files, file_structure,
                   readme_content, ret, Shell>>
    /\ UNCHANGED <<Inputs, Harness>>

\* lines 101-109
ReturnSnapshot ==
    /\ pc = "deps"
    /\ dep_ix > Len(DepFiles)
    /\ dependency_content' = WithPlaceholder(dependency_content)
    /\ ret' = [repo_data |-> [metadata |-> repo_data,
                              structure |-> file_structure,
                              readme |-> readme_content,
                              dependencies |-> dependency_content'],
               error |-> None]
    /\ pc' = "returned"
    /\ UNCHANGED <<requests, repo_data, default_branch, files, file_structure,
                   readme_content, dep_ix, Shell>>
    /\ UNCHANGED <<Inputs, Harness>>

get_repo_structure ==
    \/ RequestMetadata
    \/ RequestTree
    \/ FetchReadme
    \/ FetchDependency
    \/ ReturnSnapshot

(***************************************************************************)
(* analyze_with_gemini(repo_data, api_key, model_name)                      *)
(***************************************************************************)
\* what genai.configure / genai.GenerativeModel can do: succeed or raise
ConfigureOutcomes == {[raised |-> FALSE], [raised |-> TRUE, msg |-> T_key]}

\* what model.generate_content(prompt) / response.text can do
GenerateOutcomes ==
    {[raised |-> FALSE, text |-> T_score], [raised |-> FALSE, text |-> <<>>],
     [raised |-> TRUE, msg |-> T_quota]}

\* the keys of the dependency dict in insertion order
DepKeys(deps) ==
    IF "status" \in DOMAIN deps THEN <<"status">>
    ELSE SelectSeq(DepFiles, LAMBDA f : f \in DOMAIN deps)

\* lines 120-122
DepSummary(deps) ==
    LET keys == DepKeys(deps)
    IN  Join([i \in 1..Len(keys) |->
                 S_dashes_open \o Chars(keys[i]) \o S_dashes_close
                 \o deps[keys[i]]],
             S_two_newlines)

\* lines 125-162: the parts interpolated into the fixed prompt text
BuildPrompt(snapshot) ==
    [metadata |-> snapshot.metadata, structure |-> snapshot.structure,
     readme |-> snapshot.readme,
     dep_summary |-> DepSummary(snapshot.dependencies)]

\* lines 116-117
ConfigureResult(outcome) == S_Error_configuring \o outcome.msg

\* lines 164-168 returning the text re-formatted instead of as received
GenerateResult_Reformatted(outcome) ==
    IF outcome.raised THEN S_Error_generating \o outcome.msg
    ELSE outcome.text \o NL

\* lines 164-168
GenerateResult(outcome) ==
    IF outcome.raised THEN S_Error_generating \o outcome.msg ELSE outcome.text

\* lines 113-162
Configure ==
    /\ pc = "configure"
    /\ \E outcome \in ConfigureOutcomes :
         IF outcome.raised
         THEN /\ gemini' = [gemini EXCEPT !.configured = @ + 1,
                                          !.config_raised = TRUE,
                                          !.result = ConfigureResult(outcome)]
              /\ pc' = "display"
         ELSE /\ gemini' = [gemini EXCEPT !.configured = @ + 1,
                                          !.prompt = BuildPrompt(ret.repo_data)]
              /\ pc' = "generate"
    /\ UNCHANGED <<owner, repo, shown, RunVars, Inputs, Harness>>

\* lines 164-168
Generate ==
    /\ pc = "generate"
    /\ \E outcome \in GenerateOutcomes :
         gemini' = [gemini EXCEPT !.generated = @ + 1,
                                  !.said = IF outcome.raised THEN None
                                           ELSE outcome.text,
                                  !.result = GenerateResult(outcome)]
    /\ pc' = "display"
    /\ UNCHANGED <<owner, repo, shown, RunVars, Inputs, Harness>>

(***************************************************************************)
(* The "Analyze Repository" button handler, lines 215-254.                  *)
(***************************************************************************)
\* line 225 testing for None only
UrlRejected_NoneOnly(o, r) == o = None \/ r = None

\* line 225
UrlRejected(o, r) == ~Truthy(o) \/ ~Truthy(r)

\* lines 215-222
Click ==
    /\ pc = "idle"
    /\ IF ~Truthy(gemini_api_key)
       THEN shown' = "need_key" /\ pc' = "done"
       ELSE IF ~Truthy(selected_model)
       THEN shown' = "need_model" /\ pc' = "done"
       ELSE IF ~Truthy(repo_url)
       THEN shown' = "need_url" /\ pc' = "done"
       ELSE shown' = shown /\ pc' = "parse"
    /\ UNCHANGED <<owner, repo, gemini, RunVars, Inputs, Harness>>

\* line 223
ParseUrl ==
    /\ pc = "parse"
    /\ LET parsed == parse_github_url(repo_url)
       IN  owner' = parsed[1] /\ repo' = parsed[2]
    /\ pc' = "parsed"
    /\ UNCHANGED <<gemini, shown, RunVars, Inputs, Harness>>

\* lines 225-231
Gate ==
    /\ pc = "parsed"
    /\ IF UrlRejected(owner, repo)
       THEN shown' = "invalid_url" /\ pc' = "done"
       ELSE shown' = shown /\ pc' = "meta"
    /\ UNCHANGED <<owner, repo, gemini, RunVars, Inputs, Harness>>

\* lines 233-240
HandleResult ==
    /\ pc = "returned"
    /\ IF Truthy(ret.error)
       THEN shown' = "error" /\ pc' = "done"
       ELSE shown' = "fetched" /\ pc' = "configure"
    /\ UNCHANGED <<owner, repo, gemini, RunVars, Inputs, Harness>>

\* lines 243-254
Display ==
    /\ pc = "display"
    /\ shown' = "analysis"
    /\ pc' = "done"
    /\ UNCHANGED <<owner, repo, gemini, RunVars, Inputs, Harness>>

analyze_with_gemini == Configure \/ Generate

NextUI ==
    \/ Click
    \/ ParseUrl
    \/ Gate
    \/ get_repo_structure
    \/ HandleResult
    \/ analyze_with_gemini
    \/ Display

(***************************************************************************)
(* Inputs.                                                                  *)
(***************************************************************************)
MaxSegs == 3

MaxTrail == 2

SegNames == {T_octocat, T_Hello_World}

RECURSIVE SeqsUpTo(_, _)
SeqsUpTo(S, n) ==
    IF n = 0 THEN {<<>>}
    ELSE LET shorter == SeqsUpTo(S, n - 1)
         IN  shorter \cup {Append(s, x) : s \in {t \in shorter : Len(t) = n - 1},
                                         x \in S}

RECURSIVE Slashes(_)
Slashes(n) == IF n = 0 THEN <<>> ELSE Slash \o Slashes(n - 1)

RECURSIVE PathOf(_)
PathOf(segs) ==
    IF segs = <<>> THEN <<>> ELSE Slash \o Head(segs) \o PathOf(Tail(segs))

\* prefix, then "/segment" for each path segment, then trailing slashes
Url(prefix, segs, trail) == prefix \o PathOf(segs) \o Slashes(trail)

UrlPrefixes == {U_scheme_host, U_host}

UrlShapes == UrlPrefixes \X SeqsUpTo(SegNames, MaxSegs) \X (0..MaxTrail)

UrlInputs == {Url(u[1], u[2], u[3]) : u \in UrlShapes} \cup {None}

UiUrls ==
    {<<>>, Url(U_scheme_host, <<T_octocat, T_Hello_World>>, 0),
     Url(U_scheme_host, <<T_octocat, T_Hello_World>>, 1),
     Url(U_scheme_host, <<T_octocat>>, 0), Url(U_scheme_host, <<>>, 0),
     Url(U_host, <<>>, 0)}

(***************************************************************************)
(* Initial states and specifications.                                       *)
(***************************************************************************)
NoGemini ==
    [configured |-> 0, config_raised |-> FALSE, generated |-> 0,
     said |-> None, result |-> None, prompt |-> None]

NoFetch == [raised |-> FALSE, val |-> None]

\* nothing requested, nothing computed yet
Fresh ==
    /\ requests = <<>>
    /\ repo_data = <<>>
    /\ default_branch = <<>>
    /\ files = <<>>
    /\ file_structure = <<>>
    /\ readme_content = <<>>
    /\ dependency_content = <<>>
    /\ dep_ix = 0
    /\ ret = NotReturned
    /\ gemini = NoGemini
    /\ shown = ""

NoHarness ==
    /\ file_path = "README.md"
    /\ response = BareAnswer(HTTP_OK)
    /\ fetched = NoFetch

FileAnswers == {FileMissing, FilePresent, FileSayingNotFound, FileUndecodable}

SmallTrees == {ErrorAnswer(404, T_Not_Found), TreeAnswer(2, FALSE)}

\* one call get_repo_structure(owner, repo, token)
InitRun(tokens, answers) ==
    /\ pc = "meta"
    /\ owner = T_octocat
    /\ repo = T_Hello_World
    /\ github_token \in tokens
    /\ github = answers
    /\ repo_url = None
    /\ gemini_api_key = None
    /\ selected_model = None
    /\ Fresh
    /\ NoHarness

\* every answer a file request can get, without a token
Init ==
    InitRun({None},
            [meta |-> MetaAnswers, trees |-> SmallTrees, files |-> FileAnswers])

Spec == Init /\ [][get_repo_structure]_vars

\* every kind of token: absent, empty, present
InitAuth ==
    InitRun({None, <<>>, T_ghp},
            [meta |-> MetaAnswers, trees |-> SmallTrees,
             files |-> {FileMissing, FilePresent}])

SpecAuth == InitAuth /\ [][get_repo_structure]_vars

\* trees around the cap of line 84
SmallTree == 3

TreeSlack == 2

LargeTree == 250

TreeSizes ==
    (0..SmallTree) \cup ((MaxFiles - TreeSlack)..(MaxFiles + TreeSlack))
    \cup {LargeTree}

TreeAnswers ==
    {TreeAnswer(n, rev) : n \in TreeSizes, rev \in BOOLEAN}
    \cup {ErrorAnswer(404, T_Not_Found), BareAnswer(HTTP_OK)}

InitTree ==
    InitRun({None},
            [meta |-> {MetaWithBranch, ErrorAnswer(404, T_Not_Found)},
             trees |-> TreeAnswers, files |-> {FileMissing, FilePresent}])

SpecTree == InitTree /\ [][get_repo_structure]_vars

\* the page before the click: lines 175-213
InitUI ==
    /\ pc = "idle"
    /\ gemini_api_key \in {<<>>, T_key}
    /\ selected_model \in (IF Truthy(gemini_api_key) THEN {None, T_model}
                           ELSE {None})
    /\ github_token \in {<<>>, T_ghp}
    /\ repo_url \in UiUrls
    /\ github = [meta |-> MetaAnswers, trees |-> SmallTrees,
                 files |-> {FileMissing, FilePresent}]
    /\ owner = None
    /\ repo = None
    /\ Fresh
    /\ NoHarness

SpecUI == InitUI /\ [][NextUI]_vars

\* parse_github_url(url) on its own
InitParse ==
    /\ pc = "parse"
    /\ repo_url \in UrlInputs
    /\ gemini_api_key = T_key
    /\ selected_model = T_model
    /\ github_token = None
    /\ github = [meta |-> {}, trees |-> {}, files |-> {}]
    /\ owner = None
    /\ repo = None
    /\ Fresh
    /\ NoHarness

SpecParse == InitParse /\ [][ParseUrl]_vars

\* fetch_file_content(owner, repo, file_path) on its own, for one answer
MaxTextLen == 2

MaxPayloadLen == 4

\* 'a', e-acute (two bytes in UTF-8), the euro sign (three bytes)
TextAlphabet == {97, 233, 8364}

\* '/', 'w', '=', newline, and a character that is not ASCII
PayloadAlphabet == {47, 119, 61, 10, 233}

SampleTexts == SeqsUpTo(TextAlphabet, MaxTextLen) \cup {T_a \o S_not_found}

EncodedPayloads ==
    {B64Encode(Utf8Encode(t)) : t \in SampleTexts}
    \cup {B64Encode(Utf8Encode(t)) \o NL : t \in SampleTexts}

Payloads == EncodedPayloads \cup SeqsUpTo(PayloadAlphabet, MaxPayloadLen) \cup {None}

FetchAnswers ==
    {RawAnswer(s, p) : s \in {HTTP_OK, 404, 403}, p \in Payloads}
    \cup {BareAnswer(s) : s \in {HTTP_OK, 404}}
    \cup {ErrorAnswer(404, T_Not_Found)}

InitFetch ==
    /\ pc = "fetch"
    /\ file_path \in {"README.md", "package.json"}
    /\ response \in FetchAnswers
    /\ fetched = NoFetch
    /\ github_token = None
    /\ github = [meta |-> {}, trees |-> {}, files |-> {}]
    /\ owner = T_octocat
    /\ repo = T_Hello_World
    /\ repo_url = None
    /\ gemini_api_key = None
    /\ selected_model = None
    /\ Fresh

\* lines 42-57, the request of line 49 answered by `response`
FetchFile ==
    /\ pc = "fetch"
    /\ fetched' = fetch_file_content(file_path, response)
    /\ pc' = IF fetched'.raised THEN "crashed" ELSE "fetched"
    /\ UNCHANGED <<file_path, response, Shell, RunVars, Inputs>>

SpecFetch == InitFetch /\ [][FetchFile]_vars

(***************************************************************************)
(* Properties.  The answers are read back from the request log:             *)
(* request 1 is the metadata request, 2 the tree, 3 the README and          *)
(* 3 + i the i-th dependency manifest.                                      *)
(***************************************************************************)
ManifestOrder ==
    <<"requirements.txt", "package.json", "Pipfile", "pyproject.toml",
      "package-lock.json", "Pipfile.lock", "yarn.lock">>

Answer(i) == requests[i].resp

Succeeded(i) == Answer(i).status = 200

ReturnedSnapshot == pc = "returned" /\ ret.error = None

\* the text a contents answer carries, when its payload decodes
Decoded(i) == DecodeContent(GetContent(Answer(i).body))

\* answered 200 with a decodable payload
Found(i) == Succeeded(i) /\ Decoded(i).ok

PlaceholderDeps == "status" :> S_No_dependency

\* C1: get_repo_structure returns an error if and only if the metadata
\* request is answered with a status other than 200.  With a 200 the result
\* is a snapshot and no error, whatever the other nine requests brought: a
\* failed tree request leaves the file list empty, a failed README request
\* leaves the placeholder text, and seven failed manifest requests leave the
\* placeholder entry.  With any other status the result is (None, error) and
\* the error text holds the status code and the provider's message.
C1_ErrorIffMetadataFails ==
    pc = "returned" =>
        /\ (ret.error # None) <=> ~Succeeded(1)
        /\ Succeeded(1) =>
             /\ Len(requests) = 10
             /\ ret.repo_data # NoSnapshot
             /\ ret.repo_data.metadata = Answer(1).body
             /\ ~Succeeded(2) => ret.repo_data.structure = <<>>
             /\ ~Succeeded(3) => ret.repo_data.readme = S_No_README
             /\ (\A i \in 4..10 : ~Succeeded(i))
                    => ret.repo_data.dependencies = PlaceholderDeps
        /\ ~Succeeded(1) =>
             /\ ret.repo_data = NoSnapshot
             /\ Contains(ret.error, IntToStr(Answer(1).status))
             /\ "message" \in DOMAIN Answer(1).body
                    => Contains(ret.error, Answer(1).body["message"])

\* a snapshot came back although the tree, the README and some manifest
\* failed while another manifest was there
C1_Witness ==
    /\ ReturnedSnapshot
    /\ ~Succeeded(2) /\ ~Succeeded(3) /\ ~Succeeded(4) /\ Succeeded(5)
    /\ ret.repo_data.structure = <<>>
    /\ ret.repo_data.readme = S_No_README

\* C2: the dependency mapping of a returned snapshot is never empty; it holds
\* the placeholder entry "status" exactly when none of the seven manifests
\* was found (answered 200), and then nothing else.
C2_DependencyMapping ==
    ReturnedSnapshot =>
        LET deps == ret.repo_data.dependencies
        IN  /\ DOMAIN deps # {}
            /\ ("status" \in DOMAIN deps) <=> (\A i \in 4..10 : ~Succeeded(i))
            /\ "status" \in DOMAIN deps => DOMAIN deps = {"status"}

\* C3: a URL .../{owner}/{repo}, with or without a trailing slash, parses to
\* (owner, repo); a URL with fewer than two path segments parses to
\* (None, None); a parse that does not fail gives two non-empty fields.
C3_ParseContract ==
    pc = "parsed" =>
        /\ \A u \in UrlShapes :
             repo_url = Url(u[1], u[2], u[3]) =>
                 LET segs == u[2]
                     n == Len(segs)
                 IN  /\ n >= 2 /\ u[3] <= 1
                           => owner = segs[n - 1] /\ repo = segs[n]
                     /\ n < 2 => owner = None /\ repo = None
        /\ ~(owner = None /\ repo = None) => owner # <<>> /\ repo # <<>>

C5_Truncation ==
    Len(requests) >= 2 =>
        /\ Len(files) <= 100
        /\ file_structure = Join(files, NL)
        /\ ~Succeeded(2) => files = <<>> /\ file_structure = <<>>
        /\ Succeeded(2) /\ "tree" \in DOMAIN Answer(2).body =>
             LET tree == Answer(2).body["tree"]
             IN  /\ Len(files) = IF Len(tree) < 100 THEN Len(tree) ELSE 100
                 /\ \A i \in 1..Len(files) : files[i] = tree[i].path
        /\ ReturnedSnapshot => ret.repo_data.structure = file_structure

\* a tree of 250 entries was cut to its first 100
C5_Witness ==
    /\ ReturnedSnapshot
    /\ Succeeded(2)
    /\ "tree" \in DOMAIN Answer(2).body
    /\ Len(Answer(2).body["tree"]) = 250
    /\ Len(files) = 100
    /\ files[100] = Answer(2).body["tree"][100].path
    /\ files[1] # files[100]

\* C6: analyze_with_gemini makes at most one generation call and always
\* comes back with a string: the model's text as it was said when
\* configuration and generation succeed, an error text when configuration
\* fails (and then no generation call was made) or when generation fails.
HasPrefix(s, p) == Len(s) >= Len(p) /\ SubSeq(s, 1, Len(p)) = p

C6_SingleGeneration ==
    /\ gemini.generated <= 1
    /\ gemini.config_raised => gemini.generated = 0
    /\ pc # "crashed"
    /\ pc \in {"display", "done"} /\ gemini.configured > 0 =>
         /\ gemini.result # None
         /\ gemini.config_raised
                => HasPrefix(gemini.result, S_Error_configuring)
         /\ ~gemini.config_raised => gemini.generated = 1
         /\ gemini.generated = 1 /\ gemini.said # None
                => gemini.result = gemini.said
         /\ gemini.generated = 1 /\ gemini.said = None
                => HasPrefix(gemini.result, S_Error_generating)

\* the model's text reached the page as it was said
C6_Witness ==
    /\ pc = "done"
    /\ shown = "analysis"
    /\ gemini.generated = 1
    /\ gemini.said = T_score
    /\ gemini.result = T_score

\* C7: with a non-empty token every request of the run carries
\* Authorization: token {token}; with no token, or an empty one, none does.
C7_Authorization ==
    \A i \in 1..Len(requests) :
        LET h == requests[i].headers
        IN  IF github_token # None /\ github_token # <<>>
            THEN /\ "Authorization" \in DOMAIN h
                 /\ h["Authorization"] = S_token \o github_token
            ELSE "Authorization" \notin DOMAIN h

\* all ten requests of a run went out with the token
C7_Witness ==
    /\ pc = "returned"
    /\ Len(requests) = 10
    /\ github_token = T_ghp
    /\ \A i \in 1..10 : "Authorization" \in DOMAIN requests[i].headers

\* C8: the metadata request comes first; when it fails nothing else is
\* requested; when it succeeds the tree (for the default branch, or "main"),
\* the README and the seven manifests are requested in this order, each
\* once, whatever the earlier answers were, and then the run returns.
Shape(r) == [endpoint |-> r.endpoint, path |-> r.path, ref |-> r.ref]

ExpectedRequests(meta) ==
    IF meta.status # 200
    THEN <<[endpoint |-> "repo", path |-> "", ref |-> <<>>]>>
    ELSE <<[endpoint |-> "repo", path |-> "", ref |-> <<>>],
           [endpoint |-> "tree", path |-> "",
            ref |-> IF "default_branch" \in DOMAIN meta.body
                    THEN meta.body["default_branch"] ELSE S_main],
           [endpoint |-> "contents", path |-> "README.md", ref |-> <<>>]>>
         \o [i \in 1..7 |->
                [endpoint |-> "contents", path |-> ManifestOrder[i],
                 ref |-> <<>>]]

IssuesRequest == RequestMetadata \/ RequestTree \/ FetchReadme \/ FetchDependency

C8_RequestSequence ==
    IF requests = <<>>
    THEN pc = "meta"
    ELSE LET expected == ExpectedRequests(Answer(1))
         IN  /\ Len(requests) <= Len(expected)
             /\ \A i \in 1..Len(requests) : Shape(requests[i]) = expected[i]
             /\ pc = "returned" => Len(requests) = Len(expected)
             /\ Len(requests) = Len(expected) => ~ENABLED IssuesRequest
             /\ Len(requests) < Len(expected) => ENABLED IssuesRequest

\* all ten requests went out although the tree and the first manifests
\* failed, with "main" standing in for the missing default branch
C8_Witness ==
    /\ pc = "returned"
    /\ Len(requests) = 10
    /\ "default_branch" \notin DOMAIN Answer(1).body
    /\ requests[2].ref = S_main
    /\ ~Succeeded(2) /\ ~Succeeded(3) /\ ~Succeeded(4) /\ Succeeded(10)

\* C9: a manifest is a key of the dependency mapping exactly when its
\* request was answered 200 with a decodable payload, and its value is then
\* the decoded text; the readme field is the decoded README when that
\* request was answered 200 with a decodable payload and the placeholder
\* otherwise.
C9_SnapshotReflectsFetches ==
    ReturnedSnapshot =>
        LET deps == ret.repo_data.dependencies
        IN  /\ \A i \in 1..7 :
                 /\ (ManifestOrder[i] \in DOMAIN deps) <=> Found(3 + i)
                 /\ Found(3 + i) => deps[ManifestOrder[i]] = Decoded(3 + i).val
            /\ ret.repo_data.readme =
                 IF Found(3) THEN Decoded(3).val ELSE S_No_README

\* C10: a URL whose parse fails or gives an empty owner or repo leads to no
\* GitHub request and no model call; the model is called only after
\* get_repo_structure returned a snapshot without error, so a failed
\* metadata request ends with the error shown and no model call.
C10_Gating ==
    /\ (owner = None \/ repo = None \/ owner = <<>> \/ repo = <<>>) =>
         /\ requests = <<>>
         /\ gemini.configured = 0 /\ gemini.generated = 0
    /\ (gemini.configured > 0 \/ gemini.generated > 0) =>
         /\ ret.error = None
         /\ ret.repo_data # NoSnapshot
         /\ Len(requests) = 10
    /\ (requests # <<>> /\ ~Succeeded(1) /\ pc = "done") =>
         /\ shown = "error"
         /\ gemini.configured = 0 /\ gemini.generated = 0

\* "https://github.com" parsed to an empty owner and was turned away
C10_Witness ==
    /\ pc = "done"
    /\ shown = "invalid_url"
    /\ owner = <<>>
    /\ repo = U_host
    /\ requests = <<>>
====
